---- MODULE Spec2Model ----
(***************************************************************************)
(* GoDaddy domain availability checker: the classifier                     *)
(* check_domain_availability and the two batch drivers, check_domains of   *)
(* the command line tool (domain_checker.py) and main of the Streamlit     *)
(* app (app.py).  Text is a sequence of one-character strings, so that     *)
(* str.lower, str.strip, slicing and the substring test are computed.      *)
(***************************************************************************)
EXTENDS Integers, Sequences, FiniteSets, TLC

VARIABLES
    program,        \* "cli" (domain_checker.py) or "app" (app.py)
    mode,           \* "batch": a whole run; "classify": one classifier call
    raw_names,      \* the base names as the user gave them
    domain_names,   \* the list the batch loop iterates
    extensions,     \* the extension list of the run
    pc,             \* position of the run
    driver,         \* "None", "open" or "quit": the browser session
    setup,          \* "pending", "ok", "chrome_failed", "wait_failed"
    acquired,       \* number of sessions created (webdriver.Chrome returned)
    idx,            \* outer loop index into domain_names (1-based)
    ext,            \* inner loop index into extensions (1-based)
    domain_name,    \* the loop's normalized domain_name
    snap,           \* what the browser does for the query in progress
    result,         \* the result of the query in progress
    results,        \* the result list of the run
    log,            \* per appended result: the query and what the browser did
    gets,           \* number of driver.get calls issued
    check_count,    \* app: the progress counter
    total_checks,   \* app: len(domain_names) * len(extensions)
    progress,       \* app: the (check_count, total_checks) reports so far
    slept,          \* number of inter-query delays completed
    reported,       \* set of run-level messages shown to the user
    csv_file        \* "None", or the rows written to the output file

vars == <<program, mode, raw_names, domain_names, extensions, pc, driver,
          setup, acquired, idx, ext, domain_name, snap, result, results, log,
          gets, check_count, total_checks, progress, slept, reported, csv_file>>

----------------------------------------------------------------------------
(* Bounds of the model *)

MaxNames == 2       \* raw base names per run
MaxQueries == 6     \* (normalized names) x (extensions) per run
MaxFrags == 2       \* fragments concatenated into one page source
MaxElems == 2       \* elements matching the full domain on one page
MaxMsgLen == 52     \* length of an exception message

----------------------------------------------------------------------------
(* Text *)

UpperToLower ==
    [A |-> "a", B |-> "b", C |-> "c", D |-> "d", E |-> "e", F |-> "f",
     G |-> "g", H |-> "h", I |-> "i", J |-> "j", K |-> "k", L |-> "l",
     M |-> "m", N |-> "n", O |-> "o", P |-> "p", Q |-> "q", R |-> "r",
     S |-> "s", T |-> "t", U |-> "u", V |-> "v", W |-> "w", X |-> "x",
     Y |-> "y", Z |-> "z"]

\* str.lower()
Lower(s) ==
    [k \in 1..Len(s) |->
        IF s[k] \in DOMAIN UpperToLower THEN UpperToLower[s[k]] ELSE s[k]]

Whitespace == {" ", "\t", "\n", "\r"}

\* str.strip()
Strip(s) ==
    LET keep == {k \in 1..Len(s) : s[k] \notin Whitespace}
    IN  IF keep = {} THEN <<>>
        ELSE SubSeq(s, CHOOSE k \in keep : \A q \in keep : k <= q,
                       CHOOSE k \in keep : \A q \in keep : k >= q)

\* needle in text
In(needle, text) ==
    \E k \in 0..(Len(text) - Len(needle)) :
        \A q \in 1..Len(needle) : text[k + q] = needle[q]

\* any(ind in text for ind in indicators)
AnyIn(indicators, text) ==
    \E n \in 1..Len(indicators) : In(indicators[n], text)

\* s[:n]
Prefix(s, n) == SubSeq(s, 1, IF Len(s) < n THEN Len(s) ELSE n)

RECURSIVE Concat(_)
Concat(ss) == IF ss = <<>> THEN <<>> ELSE Head(ss) \o Concat(Tail(ss))

\* all sequences over S of length at most n
SeqUpTo(S, n) == UNION {[1..k -> S] : k \in 0..n}

----------------------------------------------------------------------------
(* String literals of the program *)

IS_TAKEN == <<"i", "s", " ", "t", "a", "k", "e", "n">>
DOMAIN_TAKEN == <<"d", "o", "m", "a", "i", "n", " ", "t", "a", "k", "e", "n">>
ALREADY_TAKEN == <<"a", "l", "r", "e", "a", "d", "y", " ", "t", "a", "k", "e", "n">>
UNAVAILABLE == <<"u", "n", "a", "v", "a", "i", "l", "a", "b", "l", "e">>
NOT_AVAILABLE == <<"n", "o", "t", " ", "a", "v", "a", "i", "l", "a", "b", "l", "e">>
ADD_TO_CART == <<"a", "d", "d", " ", "t", "o", " ", "c", "a", "r", "t">>
BUY_NOW == <<"b", "u", "y", " ", "n", "o", "w">>
ADD_TO_BAG == <<"a", "d", "d", " ", "t", "o", " ", "b", "a", "g">>
PURCHASE == <<"p", "u", "r", "c", "h", "a", "s", "e">>
SP_IS_TAKEN == <<" ", "i", "s", " ", "t", "a", "k", "e", "n">>
ERROR_PREFIX == <<"E", "r", "r", "o", "r", ":", " ">>
STATUS_TAKEN == <<"T", "a", "k", "e", "n">>
STATUS_AVAILABLE == <<"A", "v", "a", "i", "l", "a", "b", "l", "e">>
STATUS_UNKNOWN == <<"U", "n", "k", "n", "o", "w", "n">>
DOT_COM == <<".", "c", "o", "m">>
DOT_DEV == <<".", "d", "e", "v">>
DOT_AI == <<".", "a", "i">>

taken_indicators ==
    <<IS_TAKEN, DOMAIN_TAKEN, ALREADY_TAKEN, UNAVAILABLE, NOT_AVAILABLE>>

available_indicators == <<ADD_TO_CART, BUY_NOW, ADD_TO_BAG, PURCHASE>>

\* the slice bound of the app's error status
ErrorStatusLen == 50

\* the default extension list of check_domains
default_extensions == <<DOT_COM, DOT_DEV, DOT_AI>>

----------------------------------------------------------------------------
(* What the browser does for one query.  A snapshot is a record            *)
(*   raises      : "none", or the call of the page read that raises        *)
(*                 ("get", "page_source", "title")                         *)
(*   message     : str(e) of that exception                                *)
(*   page_source : driver.page_source                                      *)
(*   find_raises : driver.find_elements raises                             *)
(*   elements    : the elements found, in discovery order, each            *)
(*       ancestor     : "found", "NoSuchElement", or "error" (find_element *)
(*                      raises another exception)                          *)
(*       parent_text  : parent.text of the resolved ancestor               *)
(*       element_text : element.text                                       *)
(*       text_raises  : reading the inspected .text raises                 *)

\* is_available and status are assigned together
NoVerdict == [is_available |-> "None", status |-> STATUS_UNKNOWN]
TakenVerdict == [is_available |-> "False", status |-> STATUS_TAKEN]
AvailableVerdict == [is_available |-> "True", status |-> STATUS_AVAILABLE]

\* an exception left the element scan
Raised == [is_available |-> "Raise", status |-> <<>>]

full_domain(dn, e) == dn \o e

\* the page read of the try block: driver.get, page_source, title
PageReadRaises(prog, s) ==
    \/ s.raises \in {"get", "page_source"}
    \/ prog = "cli" /\ s.raises = "title"

\* TakenScan leaving its loop after the first indicator
TakenScanFirstOnly(page_text) ==
    IF In(taken_indicators[1], page_text) THEN TakenVerdict ELSE NoVerdict

\* stage 1: the loop over taken_indicators on the page text
TakenScan(page_text) ==
    IF \E n \in 1..Len(taken_indicators) : In(taken_indicators[n], page_text)
    THEN TakenVerdict
    ELSE NoVerdict

\* InspectText with the two tests in the other order
InspectTextTakenFirst(text) ==
    IF AnyIn(taken_indicators, text) THEN TakenVerdict
    ELSE IF AnyIn(available_indicators, text) THEN AvailableVerdict
    ELSE NoVerdict

\* the if/elif on one inspected text
InspectText(text) ==
    IF AnyIn(available_indicators, text) THEN AvailableVerdict
    ELSE IF AnyIn(taken_indicators, text) THEN TakenVerdict
    ELSE NoVerdict

\* ScanElements without the break: the last conclusive element wins
RECURSIVE ScanElementsNoBreak(_, _)
ScanElementsNoBreak(elements, k) ==
    IF k > Len(elements) THEN NoVerdict
    ELSE LET element == elements[k]
         IN  IF element.ancestor = "error" THEN Raised
             ELSE IF element.text_raises THEN Raised
             ELSE LET v == IF element.ancestor = "found"
                           THEN InspectText(Lower(element.parent_text))
                           ELSE InspectText(Lower(element.element_text))
                      rest == ScanElementsNoBreak(elements, k + 1)
                  IN  IF rest # NoVerdict THEN rest ELSE v

\* ScanElements reading element.text whether or not the ancestor is found
RECURSIVE ScanElementsOwnText(_, _)
ScanElementsOwnText(elements, k) ==
    IF k > Len(elements) THEN NoVerdict
    ELSE LET element == elements[k]
         IN  IF element.ancestor = "error" THEN Raised
             ELSE IF element.text_raises THEN Raised
             ELSE LET v == InspectText(Lower(element.element_text))
                  IN  IF v # NoVerdict THEN v
                      ELSE ScanElementsOwnText(elements, k + 1)

\* the for loop over domain_elements from element k on
RECURSIVE ScanElements(_, _)
ScanElements(elements, k) ==
    IF k > Len(elements) THEN NoVerdict
    ELSE LET element == elements[k]
         IN  IF element.ancestor = "error" THEN Raised
             ELSE IF element.text_raises THEN Raised
             ELSE LET v == IF element.ancestor = "found"
                           THEN InspectText(Lower(element.parent_text))
                           ELSE InspectText(Lower(element.element_text))
                  IN  IF v # NoVerdict THEN v
                      ELSE ScanElements(elements, k + 1)

\* stage 2: find_elements, then the loop
ElementScan(s) ==
    IF s.find_raises THEN Raised ELSE ScanElements(s.elements, 1)

\* PageFallback taking a page that shows only other domains for a taken one
PageFallbackAlternativesTaken(page_text, fd) ==
    IF AnyIn(available_indicators, page_text)
    THEN IF In(fd, page_text) THEN AvailableVerdict ELSE TakenVerdict
    ELSE IF In(DOMAIN_TAKEN, page_text) \/ In(fd \o SP_IS_TAKEN, page_text)
         THEN TakenVerdict
         ELSE NoVerdict

\* stage 3: the fallback on the page text
PageFallback(page_text, fd) ==
    IF AnyIn(available_indicators, page_text)
    THEN IF In(fd, page_text) THEN AvailableVerdict ELSE NoVerdict
    ELSE IF In(DOMAIN_TAKEN, page_text) \/ In(fd \o SP_IS_TAKEN, page_text)
         THEN TakenVerdict
         ELSE NoVerdict

\* the handler of the inner try
ExceptFallback(page_text) ==
    IF AnyIn(available_indicators, page_text) THEN AvailableVerdict
    ELSE IF AnyIn(taken_indicators, page_text) THEN TakenVerdict
    ELSE NoVerdict

\* Stages23 without the handler of the inner try
Stages23NoHandler(s, page_text, fd) ==
    LET scanned == ElementScan(s)
    IN  IF scanned # NoVerdict THEN scanned
        ELSE PageFallback(page_text, fd)

\* the body of "if is_available is None"
Stages23(s, page_text, fd) ==
    LET scanned == ElementScan(s)
    IN  IF scanned = Raised THEN ExceptFallback(page_text)
        ELSE IF scanned # NoVerdict THEN scanned
        ELSE PageFallback(page_text, fd)

\* "Yes" if is_available else "No" if is_available is False else "Unknown"
AvailableField(is_available) ==
    IF is_available = "True" THEN "Yes"
    ELSE IF is_available = "False" THEN "No"
    ELSE "Unknown"

\* the Status of the outer handler
ErrorStatus(prog, message) ==
    IF prog = "app" THEN ERROR_PREFIX \o Prefix(message, ErrorStatusLen)
    ELSE ERROR_PREFIX \o message

Row(dn, e, available, status) ==
    [DomainName |-> dn, Extension |-> e, FullDomain |-> full_domain(dn, e),
     Available |-> available, Status |-> status]

check_domain_availability(prog, s, dn, e) ==
    IF PageReadRaises(prog, s)
    THEN Row(dn, e, "Unknown", ErrorStatus(prog, s.message))
    ELSE LET page_text == Lower(s.page_source)
             first == TakenScan(page_text)
             v == IF first.is_available = "None"
                  THEN Stages23(s, page_text, full_domain(dn, e))
                  ELSE first
         IN  Row(dn, e, AvailableField(v.is_available), v.status)

----------------------------------------------------------------------------
(* Inputs *)

RawFoo == <<"f", "o", "o">>
RawFooUpper == <<" ", "F", "o", "o">>
RawBar == <<"b", "a", "r">>
RawBlank == <<" ", "\t">>

RawNames == {RawFoo, RawFooUpper, RawBar, RawBlank}

AppExtensionLists == {<<>>, <<DOT_COM>>, <<DOT_DEV, DOT_COM>>, default_extensions}

FragDomainTaken == <<"D", "o", "m", "a", "i", "n", " ", "T", "a", "k", "e", "n">>
FragIsTaken == <<" ", "i", "s", " ", "t", "a", "k", "e", "n">>
FragCart == <<"A", "d", "d", " ", "t", "o", " ", "C", "a", "r", "t">>
FragFooCom == <<"f", "o", "o", ".", "c", "o", "m">>

PageFragments == {FragDomainTaken, FragIsTaken, FragCart, FragFooCom}

PageSources == {Concat(fs) : fs \in SeqUpTo(PageFragments, MaxFrags)}

TextCart == <<"A", "d", "d", " ", "t", "o", " ", "C", "a", "r", "t">>
TextUnavailable == <<"U", "n", "a", "v", "a", "i", "l", "a", "b", "l", "e">>
TextPrice == <<"$", "9">>
TextBoth == <<"i", "s", " ", "t", "a", "k", "e", "n", " ", "-", " ", "B", "u", "y", " ", "N", "o", "w">>

Element(a, pt, et, tr) ==
    [ancestor |-> a, parent_text |-> pt, element_text |-> et, text_raises |-> tr]

ElementKinds ==
    { Element("found", TextCart, TextPrice, FALSE),
      Element("found", TextUnavailable, TextCart, FALSE),
      Element("found", TextPrice, TextCart, FALSE),
      Element("found", TextBoth, TextPrice, FALSE),
      Element("NoSuchElement", <<>>, TextBoth, FALSE),
      Element("NoSuchElement", <<>>, TextUnavailable, FALSE),
      Element("NoSuchElement", <<>>, TextPrice, FALSE),
      Element("NoSuchElement", <<>>, TextPrice, TRUE),
      Element("error", <<>>, TextPrice, FALSE) }

Digits == <<"0", "1", "2", "3", "4", "5", "6", "7", "8", "9">>

\* an exception message of n characters
Message(n) == [k \in 1..n |-> Digits[(k % 10) + 1]]

OkSnap(src, fr, els) ==
    [raises |-> "none", message |-> <<>>, page_source |-> src,
     find_raises |-> fr, elements |-> els]

FailSnap(at, msg) ==
    [raises |-> at, message |-> msg, page_source |-> <<>>,
     find_raises |-> FALSE, elements |-> <<>>]

\* every behaviour of the browser the classifier is checked against
Snapshots ==
    {OkSnap(src, FALSE, els) :
        src \in PageSources, els \in SeqUpTo(ElementKinds, MaxElems)}
    \cup {OkSnap(src, TRUE, <<>>) : src \in PageSources}
    \cup {FailSnap(at, Message(n)) :
            at \in {"get", "page_source", "title"}, n \in 0..MaxMsgLen}

\* the behaviours of the browser a batch run draws from, per query
BatchSnapshots(fd) ==
    { FailSnap("get", Message(MaxMsgLen)),
      OkSnap(DOMAIN_TAKEN, FALSE, <<>>),
      OkSnap(FragCart \o <<" ">> \o fd, FALSE, <<>>) }

NoSnap == OkSnap(<<>>, FALSE, <<>>)
NoRow == Row(<<>>, <<>>, "Unknown", <<>>)
NoFile == [written |-> FALSE, rows |-> <<>>]

\* [line.strip().lower() for line in ... if line.strip()]
RECURSIVE NormalizedLines(_)
NormalizedLines(lines) ==
    IF lines = <<>> THEN <<>>
    ELSE IF Strip(Head(lines)) = <<>> THEN NormalizedLines(Tail(lines))
    ELSE <<Lower(Strip(Head(lines)))>> \o NormalizedLines(Tail(lines))

----------------------------------------------------------------------------
(* The run *)

InitCommon ==
    /\ program \in {"cli", "app"}
    /\ domain_names = <<>>
    /\ pc = "start"
    /\ driver = "None"
    /\ setup = "pending"
    /\ acquired = 0
    /\ idx = 0
    /\ ext = 0
    /\ domain_name = <<>>
    /\ snap = NoSnap
    /\ result = NoRow
    /\ results = <<>>
    /\ log = <<>>
    /\ gets = 0
    /\ check_count = 0
    /\ total_checks = 0
    /\ progress = <<>>
    /\ slept = 0
    /\ reported = {}
    /\ csv_file = NoFile

\* a run of the command line tool on its arguments, or one press of the
\* app's Check Domains button on its text area and extension selection
Init ==
    /\ InitCommon
    /\ mode = "batch"
    /\ raw_names \in SeqUpTo(RawNames, MaxNames)
    /\ extensions \in
          IF program = "cli" THEN {default_extensions} ELSE AppExtensionLists
    /\ Len(NormalizedLines(raw_names)) * Len(extensions) <= MaxQueries

\* cli: main's argument check; app: the input lists and the button's checks
Start ==
    /\ mode = "batch"
    /\ pc = "start"
    /\ LET names == IF program = "cli" THEN raw_names
                    ELSE NormalizedLines(raw_names)
       IN  /\ domain_names' = names
           /\ IF names = <<>>
              THEN /\ reported' = reported \cup {"no_domain_names"}
                   /\ pc' = "done"
              ELSE IF extensions = <<>>
              THEN /\ reported' = reported \cup {"no_extensions"}
                   /\ pc' = "done"
              ELSE /\ reported' = reported
                   /\ pc' = "create_driver"
    /\ UNCHANGED <<program, mode, raw_names, extensions, driver, setup,
                   acquired, idx, ext, domain_name, snap, result, results, log,
                   gets, check_count, total_checks, progress, slept, csv_file>>

\* the handler of a setup failure: cli prints and falls to finally, app's
\* init_driver reports and returns None, and main returns
SetupFailed(why) ==
    /\ setup' = why
    /\ reported' = reported \cup {"setup_error"}
    /\ pc' = IF program = "cli" THEN "finally" ELSE "done"

\* webdriver.Chrome(options=options) returns
CreateDriverOk ==
    /\ pc = "create_driver"
    /\ driver' = "open"
    /\ acquired' = acquired + 1
    /\ pc' = "implicitly_wait"
    /\ UNCHANGED <<program, mode, raw_names, domain_names, extensions, setup,
                   idx, ext, domain_name, snap, result, results, log, gets,
                   check_count, total_checks, progress, slept, reported,
                   csv_file>>

\* webdriver.Chrome(options=options) raises
CreateDriverFails ==
    /\ pc = "create_driver"
    /\ SetupFailed("chrome_failed")
    /\ UNCHANGED <<program, mode, raw_names, domain_names, extensions, driver,
                   acquired, idx, ext, domain_name, snap, result, results, log,
                   gets, check_count, total_checks, progress, slept, csv_file>>

\* ImplicitlyWaitOk with total_checks taken from the lines as typed
ImplicitlyWaitOkRawTotal ==
    /\ pc = "implicitly_wait"
    /\ setup' = "ok"
    /\ total_checks' = IF program = "app"
                       THEN Len(raw_names) * Len(extensions)
                       ELSE total_checks
    /\ idx' = 0
    /\ pc' = "next_name"
    /\ UNCHANGED <<program, mode, raw_names, domain_names, extensions, driver,
                   acquired, ext, domain_name, snap, result, results, log, gets,
                   check_count, progress, slept, reported, csv_file>>

\* driver.implicitly_wait(5) returns; app: total_checks and the empty results
ImplicitlyWaitOk ==
    /\ pc = "implicitly_wait"
    /\ setup' = "ok"
    /\ total_checks' = IF program = "app"
                       THEN Len(domain_names) * Len(extensions)
                       ELSE total_checks
    /\ idx' = 0
    /\ pc' = "next_name"
    /\ UNCHANGED <<program, mode, raw_names, domain_names, extensions, driver,
                   acquired, ext, domain_name, snap, result, results, log, gets,
                   check_count, progress, slept, reported, csv_file>>

\* driver.implicitly_wait(5) raises
ImplicitlyWaitFails ==
    /\ pc = "implicitly_wait"
    /\ SetupFailed("wait_failed")
    /\ UNCHANGED <<program, mode, raw_names, domain_names, extensions, driver,
                   acquired, idx, ext, domain_name, snap, result, results, log,
                   gets, check_count, total_checks, progress, slept, csv_file>>

\* LoopName without the strip and lower of the loop
LoopNameRaw(prog, name) == name

\* the name the outer loop binds: cli strips and lowers it in the loop
LoopName(prog, name) == IF prog = "cli" THEN Lower(Strip(name)) ELSE name

\* the head of the outer loop: the next name, skipped when empty, or the end
NextName ==
    /\ pc = "next_name"
    /\ IF idx < Len(domain_names)
       THEN LET name == LoopName(program, domain_names[idx + 1])
            IN  /\ idx' = idx + 1
                /\ domain_name' = name
                /\ ext' = 0
                /\ pc' = IF name = <<>> THEN "next_name" ELSE "next_extension"
       ELSE /\ pc' = IF program = "cli" THEN "finally" ELSE "store"
            /\ UNCHANGED <<idx, domain_name, ext>>
    /\ UNCHANGED <<program, mode, raw_names, domain_names, extensions, driver,
                   setup, acquired, snap, result, results, log, gets,
                   check_count, total_checks, progress, slept, reported,
                   csv_file>>

\* NextExtension leaving the inner loop one extension early
NextExtensionOffByOne ==
    /\ pc = "next_extension"
    /\ IF ext < Len(extensions) - 1
       THEN /\ ext' = ext + 1
            /\ check_count' = IF program = "app" THEN check_count + 1
                              ELSE check_count
            /\ pc' = "fetch"
       ELSE /\ pc' = "next_name"
            /\ UNCHANGED <<ext, check_count>>
    /\ UNCHANGED <<program, mode, raw_names, domain_names, extensions, driver,
                   setup, acquired, idx, domain_name, snap, result, results,
                   log, gets, total_checks, progress, slept, reported,
                   csv_file>>

\* the head of the inner loop; app: check_count += 1
NextExtension ==
    /\ pc = "next_extension"
    /\ IF ext < Len(extensions)
       THEN /\ ext' = ext + 1
            /\ check_count' = IF program = "app" THEN check_count + 1
                              ELSE check_count
            /\ pc' = "fetch"
       ELSE /\ pc' = "next_name"
            /\ UNCHANGED <<ext, check_count>>
    /\ UNCHANGED <<program, mode, raw_names, domain_names, extensions, driver,
                   setup, acquired, idx, domain_name, snap, result, results,
                   log, gets, total_checks, progress, slept, reported,
                   csv_file>>

\* check_domain_availability is entered: driver.get on the run's driver and
\* whatever the browser then does
Fetch ==
    /\ pc = "fetch"
    /\ driver = "open"
    /\ \E s \in BatchSnapshots(full_domain(domain_name, extensions[ext])) :
          snap' = s
    /\ gets' = gets + 1
    /\ pc' = "classify"
    /\ UNCHANGED <<program, mode, raw_names, domain_names, extensions, driver,
                   setup, acquired, idx, ext, domain_name, result, results,
                   log, check_count, total_checks, progress, slept, reported,
                   csv_file>>

\* check_domain_availability returns its row
Classify ==
    /\ pc = "classify"
    /\ result' = check_domain_availability(program, snap, domain_name,
                                           extensions[ext])
    /\ pc' = "append"
    /\ UNCHANGED <<program, mode, raw_names, domain_names, extensions, driver,
                   setup, acquired, idx, ext, domain_name, snap, results, log,
                   gets, check_count, total_checks, progress, slept, reported,
                   csv_file>>

\* results.append(result)
AppendResult ==
    /\ pc = "append"
    /\ results' = Append(results, result)
    /\ log' = Append(log, [idx |-> idx, ext |-> ext, snap |-> snap])
    /\ pc' = "progress"
    /\ UNCHANGED <<program, mode, raw_names, domain_names, extensions, driver,
                   setup, acquired, idx, ext, domain_name, snap, result, gets,
                   check_count, total_checks, progress, slept, reported,
                   csv_file>>

\* app: progress_bar.progress(check_count / total_checks); cli: the print
Progress ==
    /\ pc = "progress"
    /\ progress' = IF program = "app"
                   THEN Append(progress, <<check_count, total_checks>>)
                   ELSE progress
    /\ pc' = "sleep"
    /\ UNCHANGED <<program, mode, raw_names, domain_names, extensions, driver,
                   setup, acquired, idx, ext, domain_name, snap, result,
                   results, log, gets, check_count, total_checks, slept,
                   reported, csv_file>>

\* time.sleep between checks
Sleep ==
    /\ pc = "sleep"
    /\ slept' = slept + 1
    /\ pc' = "next_extension"
    /\ UNCHANGED <<program, mode, raw_names, domain_names, extensions, driver,
                   setup, acquired, idx, ext, domain_name, snap, result,
                   results, log, gets, check_count, total_checks, progress,
                   reported, csv_file>>

\* Finally without driver.quit()
FinallyNoQuit ==
    /\ pc = "finally"
    /\ pc' = "save_to_csv"
    /\ UNCHANGED <<program, mode, raw_names, domain_names, extensions, driver,
                   setup, acquired, idx, ext, domain_name, snap, result,
                   results, log, gets, check_count, total_checks, progress,
                   slept, reported, csv_file>>

\* cli: finally: if driver: driver.quit(); return results
Finally ==
    /\ pc = "finally"
    /\ driver' = IF driver = "open" THEN "quit" ELSE driver
    /\ pc' = "save_to_csv"
    /\ UNCHANGED <<program, mode, raw_names, domain_names, extensions, setup,
                   acquired, idx, ext, domain_name, snap, result, results, log,
                   gets, check_count, total_checks, progress, slept, reported,
                   csv_file>>

\* SaveToCsv without the "if not results" return
SaveToCsvAlways ==
    /\ pc = "save_to_csv"
    /\ csv_file' = [written |-> TRUE, rows |-> results]
    /\ reported' = reported \cup {"results_saved"}
    /\ pc' = "done"
    /\ UNCHANGED <<program, mode, raw_names, domain_names, extensions, driver,
                   setup, acquired, idx, ext, domain_name, snap, result,
                   results, log, gets, check_count, total_checks, progress,
                   slept>>

\* cli: save_to_csv(results), then the summary
SaveToCsv ==
    /\ pc = "save_to_csv"
    /\ IF results = <<>>
       THEN /\ reported' = reported \cup {"no_results_to_save"}
            /\ csv_file' = csv_file
       ELSE /\ csv_file' = [written |-> TRUE, rows |-> results]
            /\ reported' = reported \cup {"results_saved"}
    /\ pc' = "done"
    /\ UNCHANGED <<program, mode, raw_names, domain_names, extensions, driver,
                   setup, acquired, idx, ext, domain_name, snap, result,
                   results, log, gets, check_count, total_checks, progress,
                   slept>>

\* app: st.session_state.results = results, "Check complete!", st.rerun()
Store ==
    /\ pc = "store"
    /\ reported' = reported \cup {"check_complete"}
    /\ pc' = "done"
    /\ UNCHANGED <<program, mode, raw_names, domain_names, extensions, driver,
                   setup, acquired, idx, ext, domain_name, snap, result,
                   results, log, gets, check_count, total_checks, progress,
                   slept, csv_file>>

Next ==
    \/ Start
    \/ CreateDriverOk
    \/ CreateDriverFails
    \/ ImplicitlyWaitOk
    \/ ImplicitlyWaitFails
    \/ NextName
    \/ NextExtension
    \/ Fetch
    \/ Classify
    \/ AppendResult
    \/ Progress
    \/ Sleep
    \/ Finally
    \/ SaveToCsv
    \/ Store

Spec == Init /\ [][Next]_vars

----------------------------------------------------------------------------
(* One call of check_domain_availability on any behaviour of the browser *)

QueryNames == {RawFoo}
QueryExtensions == {DOT_COM, DOT_DEV}

InitClassifier ==
    /\ InitCommon
    /\ mode = "classify"
    /\ raw_names = <<>>
    /\ extensions = <<>>

\* the caller passes a driver, a name and an extension
Call ==
    /\ mode = "classify"
    /\ pc = "start"
    /\ \E dn \in QueryNames, e \in QueryExtensions, s \in Snapshots :
          /\ domain_name' = dn
          /\ extensions' = <<e>>
          /\ snap' = s
    /\ ext' = 1
    /\ driver' = "open"
    /\ gets' = gets + 1
    /\ pc' = "classify"
    /\ UNCHANGED <<program, mode, raw_names, domain_names, setup, acquired,
                   idx, result, results, log, check_count, total_checks,
                   progress, slept, reported, csv_file>>

\* check_domain_availability returns to that caller
Return ==
    /\ mode = "classify"
    /\ pc = "classify"
    /\ result' = check_domain_availability(program, snap, domain_name,
                                           extensions[ext])
    /\ pc' = "returned"
    /\ UNCHANGED <<program, mode, raw_names, domain_names, extensions, driver,
                   setup, acquired, idx, ext, domain_name, snap, results, log,
                   gets, check_count, total_checks, progress, slept, reported,
                   csv_file>>

NextClassifier == Call \/ Return

SpecClassifier == InitClassifier /\ [][NextClassifier]_vars

----------------------------------------------------------------------------
(* Properties *)

\* the run has ended
Done == mode = "batch" /\ pc = "done"

\* the classifier call has returned
Returned == mode = "classify" /\ pc = "returned"

\* the classifier call has returned and the page was read
PageRead == Returned /\ ~PageReadRaises(program, snap)

PageText == Lower(snap.page_source)
QueryDomain == domain_name \o extensions[ext]

\* the element scan, stated on the elements rather than by the loop
Inspected(el) ==
    IF el.ancestor = "found" THEN Lower(el.parent_text)
    ELSE Lower(el.element_text)
Breaks(el) == el.ancestor = "error" \/ el.text_raises
SaysAvailable(el) == ~Breaks(el) /\ AnyIn(available_indicators, Inspected(el))
SaysTaken(el) ==
    /\ ~Breaks(el)
    /\ ~AnyIn(available_indicators, Inspected(el))
    /\ AnyIn(taken_indicators, Inspected(el))
ReachedAt(s, k) ==
    /\ ~s.find_raises
    /\ k \in 1..Len(s.elements)
    /\ \A q \in 1..(k - 1) :
          /\ ~Breaks(s.elements[q])
          /\ ~SaysAvailable(s.elements[q])
          /\ ~SaysTaken(s.elements[q])
Stage2Raises(s) ==
    s.find_raises \/ \E k \in 1..Len(s.elements) :
                        ReachedAt(s, k) /\ Breaks(s.elements[k])
Stage2Available(s) ==
    \E k \in 1..Len(s.elements) : ReachedAt(s, k) /\ SaysAvailable(s.elements[k])
Stage2Taken(s) ==
    \E k \in 1..Len(s.elements) : ReachedAt(s, k) /\ SaysTaken(s.elements[k])

\* C1: a run whose session setup succeeded ends with exactly n*m results,
\* n the names left after strip, lower and dropping the empty ones, m the
\* extensions, and result number i*m + j is the one of the i-th such name and
\* the j-th extension, whichever queries failed to fetch.
C1_ResultCountAndOrder ==
    (Done /\ setup = "ok") =>
        LET names == NormalizedLines(raw_names)
            n == Len(names)
            m == Len(extensions)
        IN  /\ Len(results) = n * m
            /\ \A i \in 0..(n - 1), j \in 0..(m - 1) :
                  LET r == results[i * m + j + 1]
                  IN  /\ r.DomainName = names[i + 1]
                      /\ r.Extension = extensions[j + 1]
                      /\ r.FullDomain = names[i + 1] \o extensions[j + 1]

\* a completed run over names that needed normalizing, with a failed fetch
\* followed by a successful one
C1_Witness ==
    /\ Done /\ setup = "ok"
    /\ raw_names # NormalizedLines(raw_names)
    /\ \E a, b \in 1..Len(log) :
          /\ a < b
          /\ PageReadRaises(program, log[a].snap)
          /\ ~PageReadRaises(program, log[b].snap)

\* C2: a page whose lowered text contains a taken indicator is classified
\* Taken (Available "No", Status "Taken"), whatever else the text, the
\* elements and their ancestors hold.
C2_TakenPrecedence ==
    (PageRead /\ AnyIn(taken_indicators, PageText)) =>
        result.Available = "No" /\ result.Status = STATUS_TAKEN

\* a page with a taken and an available indicator whose first element sits
\* under an ancestor that says available
C2_Witness ==
    /\ PageRead
    /\ AnyIn(taken_indicators, PageText)
    /\ AnyIn(available_indicators, PageText)
    /\ snap.elements # <<>>
    /\ SaysAvailable(snap.elements[1])
    /\ result.Available = "No"

\* the text of the page has no taken indicator, an available one and the
\* full domain
AvailablePage ==
    /\ PageRead
    /\ ~AnyIn(taken_indicators, PageText)
    /\ AnyIn(available_indicators, PageText)
    /\ In(QueryDomain, PageText)

\* C3 as claimed: such a page is classified Available whatever the elements'
\* and ancestors' texts contain.
C3_Claimed == AvailablePage => result.Available = "Yes"

\* C3 amended: such a page is classified Available, unless the element scan
\* ends on an element whose inspected text has a taken indicator and no
\* available one; then it is classified Taken.
C3_AvailableUnlessElementTaken ==
    AvailablePage =>
        IF Stage2Taken(snap)
        THEN result.Available = "No" /\ result.Status = STATUS_TAKEN
        ELSE result.Available = "Yes" /\ result.Status = STATUS_AVAILABLE

\* such a page with an inconclusive element before one that says both, and
\* one with an exception in the scan
C3_Witness ==
    /\ AvailablePage
    /\ Len(snap.elements) = 2
    /\ ~Breaks(snap.elements[1])
    /\ ~SaysAvailable(snap.elements[1]) /\ ~SaysTaken(snap.elements[1])
    /\ AnyIn(taken_indicators, Inspected(snap.elements[2]))
    /\ SaysAvailable(snap.elements[2])
    /\ result.Available = "Yes"

\* the text of the page has neither a taken nor an available indicator
BlankPage ==
    /\ PageRead
    /\ ~AnyIn(taken_indicators, PageText)
    /\ ~AnyIn(available_indicators, PageText)

\* C4 as claimed: such a page is classified Unknown whatever the elements'
\* and ancestors' texts contain.
C4_Claimed ==
    BlankPage => result.Available = "Unknown" /\ result.Status = STATUS_UNKNOWN

\* C4 amended: such a page gets the verdict of the first conclusive element
\* of the scan, when the scan reaches one without an exception, and is
\* classified Unknown with status "Unknown" otherwise.
C4_UnknownUnlessElementConclusive ==
    BlankPage =>
        IF Stage2Available(snap)
        THEN result.Available = "Yes" /\ result.Status = STATUS_AVAILABLE
        ELSE IF Stage2Taken(snap)
        THEN result.Available = "No" /\ result.Status = STATUS_TAKEN
        ELSE result.Available = "Unknown" /\ result.Status = STATUS_UNKNOWN

\* such a page with two conclusive elements that disagree, the first one
\* saying available
C4_Witness ==
    /\ BlankPage
    /\ Len(snap.elements) = 2
    /\ SaysAvailable(snap.elements[1])
    /\ SaysTaken(snap.elements[2])
    /\ result.Available = "Yes"

\* C5: the result of a query whose fetch failed is Unknown with status
\* "Error: " followed by the message cut to ErrorStatusLen characters, the
\* classification stages are not run for it, and the batch goes on.
C5_ErrorResult ==
    \A k \in 1..Len(results) :
        PageReadRaises(program, log[k].snap) =>
            /\ results[k].Available = "Unknown"
            /\ results[k].Status =
                  ERROR_PREFIX \o Prefix(log[k].snap.message, ErrorStatusLen)

\* the entries of results for name and extension e
EntriesFor(name, e) ==
    Cardinality({k \in 1..Len(results) :
                    results[k].DomainName = name /\ results[k].Extension = e})

\* the positions of name in the list names
PositionsOf(name, names) == {k \in 1..Len(names) : names[k] = name}

\* C6 as claimed: the result list never holds two entries for one (base
\* name, extension) pair, also when names repeat or become equal by
\* normalization.
C6_Claimed ==
    \A a, b \in 1..Len(results) :
        (results[a].DomainName = results[b].DomainName
            /\ results[a].Extension = results[b].Extension) => a = b

\* C6 amended: the result list holds, per (base name, extension) pair, at
\* most as many entries as the normalized name list has occurrences of the
\* name, and exactly that many when a run whose setup succeeded completes:
\* one entry per query, so one per pair when the normalized names differ.
C6_OneEntryPerQuery ==
    LET names == NormalizedLines(raw_names)
    IN  /\ \A k \in 1..Len(results) :
              \E i \in 1..Len(names), j \in 1..Len(extensions) :
                  /\ results[k].DomainName = names[i]
                  /\ results[k].Extension = extensions[j]
        /\ \A i \in 1..Len(names), j \in 1..Len(extensions) :
              LET count == Cardinality(PositionsOf(names[i], names))
              IN  /\ EntriesFor(names[i], extensions[j]) <= count
                  /\ (Done /\ setup = "ok") =>
                        EntriesFor(names[i], extensions[j]) = count

\* a completed run over two raw names that differ and normalize to one name
C6_Witness ==
    /\ Done /\ setup = "ok"
    /\ Len(raw_names) = 2
    /\ raw_names[1] # raw_names[2]
    /\ Lower(Strip(raw_names[1])) = Lower(Strip(raw_names[2]))
    /\ EntriesFor(Lower(Strip(raw_names[1])), extensions[1]) = 2

\* C7: when the browser session cannot be set up no query executes: no
\* fetch is issued, the result list is empty, the setup failure is reported
\* rather than any per-query result, and no output file is written.
C7_SetupFailureAborts ==
    (setup \in {"chrome_failed", "wait_failed"}) =>
        /\ gets = 0
        /\ results = <<>>
        /\ "setup_error" \in reported
        /\ ~csv_file.written
        /\ "results_saved" \notin reported
        /\ "check_complete" \notin reported

\* the command line tool has ended after webdriver.Chrome raised, save_to_csv
\* having found nothing to save
C7_Witness ==
    /\ Done
    /\ program = "cli"
    /\ setup = "chrome_failed"
    /\ "no_results_to_save" \in reported

\* at most one session per run, and every query runs on it
OneSession ==
    /\ acquired <= 1
    /\ pc \in {"next_name", "next_extension", "fetch", "classify", "append",
               "progress", "sleep"} => (driver = "open" /\ acquired = 1)
    /\ gets > 0 => acquired = 1

\* C8 as claimed: one session per run, used by every query, and no run ends
\* with an acquired session still open.
C8_Claimed == OneSession /\ (Done => driver # "open")

\* C8 amended: one session per run, used by every query; the command line
\* tool releases an acquired session on every exit path, while the app keeps
\* the session it acquired open when the run ends.
C8_ReleasedByCliKeptByApp ==
    /\ OneSession
    /\ (Done /\ program = "cli") => driver # "open"
    /\ (Done /\ program = "cli" /\ acquired = 1) => driver = "quit"
    /\ (Done /\ program = "app" /\ acquired = 1) => driver = "open"

\* the command line tool has ended a run with a failed fetch in it and has
\* quit its driver
C8_Witness ==
    /\ Done
    /\ program = "cli"
    /\ driver = "quit"
    /\ \E k \in 1..Len(log) : PageReadRaises(program, log[k].snap)

\* the call returned a row of the output schema
WellFormed(r) ==
    /\ r.DomainName = domain_name
    /\ r.Extension = extensions[ext]
    /\ r.FullDomain = QueryDomain
    /\ \/ r.Available = "Yes" /\ r.Status = STATUS_AVAILABLE
       \/ r.Available = "No" /\ r.Status = STATUS_TAKEN
       \/ r.Available = "Unknown" /\ r.Status = STATUS_UNKNOWN
       \/ r.Available = "Unknown" /\ Prefix(r.Status, Len(ERROR_PREFIX)) = ERROR_PREFIX

\* an exception was raised inside the call: in the page read, or in the
\* element scan (a missing ancestor included)
FailureInside ==
    \/ PageReadRaises(program, snap)
    \/ /\ ~AnyIn(taken_indicators, PageText)
       /\ \/ Stage2Raises(snap)
          \/ \E k \in 1..Len(snap.elements) :
                ReachedAt(snap, k) /\ snap.elements[k].ancestor = "NoSuchElement"

C10_ExceptionFallsToPageFallback ==
    (PageRead /\ ~AnyIn(taken_indicators, PageText) /\ Stage2Raises(snap)) =>
        LET v == PageFallback(PageText, QueryDomain)
        IN  /\ result.Available = AvailableField(v.is_available)
            /\ result.Status = v.status

\* the element scan is entered: the page was read and its text has no taken
\* indicator
Stage2Entered == PageRead /\ ~AnyIn(taken_indicators, PageText)

\* C11: in stage 2 the elements are inspected in discovery order, each by
\* its ancestor's text, or by its own text when the ancestor is missing; the
\* first element whose inspected text has an available indicator gives
\* Available, else one with a taken indicator gives Taken (available is
\* tested first within one text), whatever the later elements hold, and
\* inconclusive elements are skipped.
C11_FirstConclusiveElementDecides ==
    Stage2Entered =>
        \A k \in 1..Len(snap.elements) :
            ReachedAt(snap, k) =>
                LET el == snap.elements[k]
                    text == IF el.ancestor = "found" THEN Lower(el.parent_text)
                            ELSE Lower(el.element_text)
                IN  (el.ancestor \in {"found", "NoSuchElement"}
                        /\ ~el.text_raises) =>
                      IF AnyIn(available_indicators, text)
                      THEN /\ result.Available = "Yes"
                           /\ result.Status = STATUS_AVAILABLE
                      ELSE AnyIn(taken_indicators, text) =>
                              /\ result.Available = "No"
                              /\ result.Status = STATUS_TAKEN

\* the first element is skipped on its ancestor's text although its own text
\* says available, the second has no ancestor and its own text holds both
\* kinds of indicator, on a page without indicators
C11_Witness ==
    /\ Stage2Entered
    /\ ~AnyIn(available_indicators, PageText)
    /\ Len(snap.elements) = 2
    /\ snap.elements[1].ancestor = "found"
    /\ ~snap.elements[1].text_raises
    /\ AnyIn(available_indicators, Lower(snap.elements[1].element_text))
    /\ ~AnyIn(available_indicators, Lower(snap.elements[1].parent_text))
    /\ ~AnyIn(taken_indicators, Lower(snap.elements[1].parent_text))
    /\ snap.elements[2].ancestor = "NoSuchElement"
    /\ ~snap.elements[2].text_raises
    /\ AnyIn(available_indicators, Lower(snap.elements[2].element_text))
    /\ AnyIn(taken_indicators, Lower(snap.elements[2].element_text))
    /\ result.Available = "Yes"

\* fetches issued, results appended, reports made and delays ended at each
\* position of a query, q being the number of queries completed before it
QueryOrder ==
    LET q == slept
        reports == IF program = "app" THEN Len(progress) ELSE 0
        made(n) == IF program = "app" THEN n ELSE 0
    IN  /\ pc \in {"next_name", "next_extension", "fetch", "finally", "store",
                   "save_to_csv", "done"} =>
              gets = q /\ Len(results) = q /\ reports = made(q)
        /\ pc \in {"classify", "append"} =>
              gets = q + 1 /\ Len(results) = q /\ reports = made(q)
        /\ pc = "progress" =>
              gets = q + 1 /\ Len(results) = q + 1 /\ reports = made(q)
        /\ pc = "sleep" =>
              gets = q + 1 /\ Len(results) = q + 1 /\ reports = made(q + 1)

FallbackReached ==
    /\ Stage2Entered
    /\ ~Stage2Raises(snap)
    /\ ~Stage2Available(snap)
    /\ ~Stage2Taken(snap)

\* C13: the page text fallback never gives Taken: a page classified Taken
\* without an exception in the scan has a taken indicator in its text or a
\* first conclusive element that says taken, and a page that reaches the
\* fallback is classified Available or Unknown, Unknown when its text has an
\* available indicator but not the full domain.
C13_FallbackNeverTaken ==
    /\ (PageRead /\ ~Stage2Raises(snap) /\ result.Available = "No") =>
          AnyIn(taken_indicators, PageText) \/ Stage2Taken(snap)
    /\ FallbackReached =>
          /\ result.Available # "No"
          /\ result.Status # STATUS_TAKEN
          /\ (AnyIn(available_indicators, PageText)
                /\ ~In(QueryDomain, PageText)) =>
                (result.Available = "Unknown" /\ result.Status = STATUS_UNKNOWN)
    /\ AnyIn(taken_indicators, DOMAIN_TAKEN)
    /\ \A dn \in QueryNames, e \in QueryExtensions :
          AnyIn(taken_indicators, full_domain(dn, e) \o SP_IS_TAKEN)

\* the fallback is reached after an inconclusive element on a page that
\* offers another domain for sale and does not name the one asked for
C13_Witness ==
    /\ FallbackReached
    /\ snap.elements # <<>>
    /\ AnyIn(available_indicators, PageText)
    /\ ~In(QueryDomain, PageText)
    /\ In(FragFooCom, PageText)
    /\ result.Available = "Unknown"

====
